---- MODULE Spec2Model ----
(***************************************************************************)
(* Task orchestration layer of the Suruga Seiki EW51 control daemon:       *)
(* the TaskManager registry (app/task_manager.py), the BaseTaskExecutor    *)
(* life cycle (app/tasks/base_task.py), the operation bodies of the four   *)
(* executors (app/tasks/*.py) and the blocking poll loops they run on a    *)
(* worker thread (app/controller_manager.py).                              *)
(*                                                                         *)
(* Threads.  The asyncio event loop is one thread: `sched` names the       *)
(* executor that holds it between two of its steps that are not separated  *)
(* by a suspension point (0: the loop is free to run any ready callback).  *)
(* Each poll loop runs on its own thread (asyncio.to_thread) and its steps *)
(* interleave freely with the loop.  What a worker hands to the loop       *)
(* (progress patches, its completion) goes through call_soon_threadsafe,   *)
(* a FIFO: the variable `ready`.                                           *)
(***************************************************************************)
EXTENDS Integers, Sequences, FiniteSets, TLC

\* ---------------------------------------------------------------- bounds
\* number of create_task calls that succeed in one run
MaxTasks == 2
\* TaskManager._max_history_size, scaled down from 100 so that pruning happens
max_history_size == 1
\* poll-loop iterations that find the hardware still busy before the
\* wall-clock budget is taken to be spent
MaxPolls == 2

Ids == 1..MaxTasks
\* an id no create_task call returns (uuid4 never produced it)
UnknownId == MaxTasks + 1
NoTask == [absent |-> TRUE]

\* ---------------------------------------------------------------- enums
PENDING == "pending"
RUNNING == "running"
STOPPING == "stopping"
COMPLETED == "completed"
FAILED == "failed"
CANCELLED == "cancelled"
TaskStatus == {PENDING, RUNNING, STOPPING, COMPLETED, FAILED, CANCELLED}
Terminal == {COMPLETED, FAILED, CANCELLED}

ANGLE_ADJUSTMENT == "angle_adjustment"
FLAT_ALIGNMENT == "flat_alignment"
FOCUS_ALIGNMENT == "focus_alignment"
PROFILE_MEASUREMENT == "profile_measurement"
AXIS_MOVEMENT == "axis_movement"
OperationType ==
  {ANGLE_ADJUSTMENT, FLAT_ALIGNMENT, FOCUS_ALIGNMENT, PROFILE_MEASUREMENT, AXIS_MOVEMENT}

\* The request handed to execute(), by the shape the operation body tells apart.
Requests(op) ==
  CASE op = AXIS_MOVEMENT -> {"absolute", "relative", "bad_type", "bad_axis", "no_target"}
    [] op = FLAT_ALIGNMENT -> {"flat", "unknown"}
    [] op = FOCUS_ALIGNMENT -> {"focus", "unknown"}
    [] op = ANGLE_ADJUSTMENT -> {"angle"}
    [] OTHER -> {"profile"}

\* ---------------------------------------------------------------- state
VARIABLES
  tasks,      \* id -> Task object (NoTask: not allocated, or unreachable)
  current,    \* TaskManager._current_task: an id, 0 for None
  history,    \* TaskManager._task_history: ids in insertion order
  nextId,     \* next id create_task hands out
  now,        \* datetime.utcnow(), as a logical clock
  epc,        \* id -> position of the execute() coroutine of the task
  sched,      \* executor holding the event-loop thread, 0 if none
  wpc,        \* id -> position of the worker thread of the task
  cause,      \* id -> how the operation body's blocking part ended
  polls,      \* id -> iterations of the poll loop that found the hardware busy
  ready,      \* FIFO of thread-safe hand-offs from workers to the event loop
  hwInit,     \* ids whose initiating hardware call was issued
  hwStop,     \* ids whose worker issued the hardware stop call
  requested,  \* id -> the status the task had when cancel_task accepted it
  atExit,     \* id -> whether the cancellation event was set when the worker left
  sent,       \* the messages handed to the broadcast callback, in order
  ret         \* outcome of the call made by the last step

vars == <<tasks, current, history, nextId, now, epc, sched, wpc, cause, polls,
          ready, hwInit, hwStop, requested, atExit, sent, ret>>

\* ---------------------------------------------------------------- Task
NoProgress == [k \in {} |-> 0]

\* a Task that is born running
NewTask_started(id, op, req, clk) ==
  [task_id |-> id, operation_type |-> op, status |-> RUNNING,
   progress |-> NoProgress, result |-> "None", error |-> "None",
   created_at |-> clk, started_at |-> clk, completed_at |-> 0,
   cancellation_event |-> FALSE, request_data |-> req]

NewTask(id, op, req, clk) ==
  [task_id |-> id, operation_type |-> op, status |-> PENDING,
   progress |-> NoProgress, result |-> "None", error |-> "None",
   created_at |-> clk, started_at |-> 0, completed_at |-> 0,
   cancellation_event |-> FALSE, request_data |-> req]

\* a progress that is replaced by the patch
Merge_replace(p, q) == q

\* dict.update
Merge(p, q) ==
  [k \in DOMAIN p \cup DOMAIN q |-> IF k \in DOMAIN q THEN q[k] ELSE p[k]]

RECURSIVE SeqToSet(_)
SeqToSet(s) == IF s = <<>> THEN {} ELSE {Head(s)} \cup SeqToSet(Tail(s))

\* ---------------------------------------------------------------- TaskManager
\* get_task looking at the current slot only
get_task_current_only(cur, hist, id) == IF cur # 0 /\ cur = id THEN cur ELSE 0

\* get_task: the id of the Task found, 0 for None
get_task(cur, hist, id) ==
  IF cur # 0 /\ cur = id THEN cur
  ELSE IF id \in SeqToSet(hist) THEN id ELSE 0

\* create_task refusing only while the current task is pending
Active_pending_only == {PENDING}

\* the statuses that make create_task refuse
Active == {PENDING, RUNNING, STOPPING}

\* create_task with `stopping` left out of the guard
create_conflict_no_stopping(ts, cur) == cur # 0 /\ ts[cur].status \in {PENDING, RUNNING}

\* create_task with only `running` in the guard
create_conflict_running_only(ts, cur) == cur # 0 /\ ts[cur].status = RUNNING

\* create_task raises RuntimeError
create_conflict(ts, cur) == cur # 0 /\ ts[cur].status \in Active

\* _add_to_history dropping the newest entries beyond the capacity
add_to_history_drops_newest(hist, id) ==
  LET h == Append(hist, id)
  IN IF Len(h) > max_history_size THEN SubSeq(h, 1, max_history_size) ELSE h

\* _add_to_history without pruning
add_to_history_unbounded(hist, id) == Append(hist, id)

\* _add_to_history: insert, then drop the oldest entries beyond the capacity.
\* created_at grows with every creation, so the dict's insertion order is the
\* created_at order the code sorts by.
add_to_history(hist, id) ==
  LET h == Append(hist, id)
  IN IF Len(h) > max_history_size
     THEN SubSeq(h, Len(h) - max_history_size + 1, Len(h))
     ELSE h

\* cancel_task without its status guard
Cancellable_any == TaskStatus

\* cancel_task also accepting a task that is already stopping
Cancellable_with_stopping == {PENDING, RUNNING, STOPPING}

\* the statuses cancel_task accepts
Cancellable == {PENDING, RUNNING}

\* cancel_task on a Task object
cancel_task(t) == [t EXCEPT !.cancellation_event = TRUE, !.status = STOPPING]

\* cancel_task setting the event before it looks at the status
cancel_attempt_sets_first(t) ==
  IF t.status \notin Cancellable
  THEN [t EXCEPT !.cancellation_event = TRUE]
  ELSE cancel_task(t)

\* The Task object after cancel_task was called on it: the guard raises
\* before anything is written.
cancel_attempt(t) ==
  IF t.status \notin Cancellable THEN t ELSE cancel_task(t)

\* update_status handing the task a fresh event when it starts running
update_status_resets(t, status, clk) ==
  [t EXCEPT !.status = status, !.cancellation_event = FALSE]

\* update_status that writes the status and no timestamp
update_status_untimed(t, status, clk) == [t EXCEPT !.status = status]

\* update_status on a Task object
update_status(t, status, clk) ==
  LET t1 == [t EXCEPT !.status = status]
  IN IF status = RUNNING /\ t.started_at = 0
     THEN [t1 EXCEPT !.started_at = clk]
     ELSE IF status \in {COMPLETED, FAILED, CANCELLED}
          THEN [t1 EXCEPT !.completed_at = clk]
          ELSE t1

\* update_progress on a Task object
update_progress(t, patch) == [t EXCEPT !.progress = Merge(t.progress, patch)]

\* complete_task that does not store the result
complete_task_status_only(t, result, clk) ==
  [t EXCEPT !.status = COMPLETED, !.completed_at = clk]

\* complete_task on a Task object
complete_task(t, result, clk) ==
  [t EXCEPT !.status = COMPLETED, !.result = result, !.completed_at = clk]

\* fail_task that also stores a partial result
fail_task_with_result(t, error, clk) ==
  [t EXCEPT !.status = FAILED, !.error = error, !.result = "partial", !.completed_at = clk]

\* fail_task on a Task object
fail_task(t, error, clk) ==
  [t EXCEPT !.status = FAILED, !.error = error, !.completed_at = clk]

\* clear_current_task that clears nothing
clear_current_task_never(ts, cur) == cur

\* clear_current_task: the new value of _current_task
clear_current_task(ts, cur) ==
  IF cur # 0 /\ ts[cur].status \in {COMPLETED, FAILED, CANCELLED} THEN 0 ELSE cur

\* The broadcast_callback the routers construct every executor with: none
\* (MotionTaskExecutor(task_manager=task_manager) and its siblings).
broadcast_callback == FALSE

\* the message broadcast_progress builds from the task it has just updated
Message(t) ==
  [type |-> "task_progress", task_id |-> t.task_id,
   operation_type |-> t.operation_type, status |-> t.status, progress |-> t.progress]

\* broadcast_progress after its update_progress: the messages handed to the
\* callback so far, t being the task as updated
broadcast(msgs, t) ==
  IF broadcast_callback THEN Append(msgs, Message(t)) ELSE msgs

NoCall == [op |-> "none", id |-> 0, res |-> "none", arg |-> "none"]
Call(op, id, res, arg) == [op |-> op, id |-> id, res |-> res, arg |-> arg]

Init ==
  /\ tasks = [i \in Ids |-> NoTask]
  /\ current = 0
  /\ history = <<>>
  /\ nextId = 1
  /\ now = 1
  /\ epc = [i \in Ids |-> "none"]
  /\ sched = 0
  /\ wpc = [i \in Ids |-> "none"]
  /\ cause = [i \in Ids |-> "none"]
  /\ polls = [i \in Ids |-> 0]
  /\ ready = <<>>
  /\ hwInit = {}
  /\ hwStop = {}
  /\ requested = [i \in Ids |-> "none"]
  /\ atExit = [i \in Ids |-> FALSE]
  /\ sent = <<>>
  /\ ret = NoCall

\* ---------------------------------------------------------------- hand-offs
Patch(id, p) == [kind |-> "patch", id |-> id, patch |-> p]
Done(id) == [kind |-> "done", id |-> id, patch |-> NoProgress]

\* a loop that runs the newest hand-off first
Turn_newest(q) == Len(q)

\* The hand-off the event loop runs next: call_soon_threadsafe appends to the
\* loop's ready queue, which is run from its front.
Turn(q) == 1

\* the queue without its k-th entry
Remove(q, k) == SubSeq(q, 1, k - 1) \o SubSeq(q, k + 1, Len(q))

\* ---------------------------------------------------------------- routers
\* A Task object nothing refers to any more (pruned from the history, not
\* current, its execute() finished) is dropped from `tasks`.
Reachable(ts, cur, hist, pcs) ==
  [i \in Ids |-> IF i = cur \/ i \in SeqToSet(hist) \/ pcs[i] \notin {"none", "done", "raised"}
                 THEN ts[i] ELSE NoTask]

\* POST /move/absolute and its siblings: create_task, then
\* asyncio.create_task(executor.execute(task_id, request, controller)).
CreateTask(op, req) ==
  /\ sched = 0
  /\ IF create_conflict(tasks, current)
     THEN /\ ret' = Call("create_task", 0, "Conflict", op)
          /\ UNCHANGED <<tasks, current, history, nextId, now, epc, sched, wpc,
                         cause, polls, ready, hwInit, hwStop, requested, atExit, sent>>
     ELSE /\ nextId <= MaxTasks
          /\ LET id == nextId
                 hist == add_to_history(history, id)
                 pcs == [epc EXCEPT ![id] = "scheduled"]
                 ts == Reachable([tasks EXCEPT ![id] = NewTask(id, op, req, now)],
                                 id, hist, pcs)
                 gone == {i \in Ids : ts[i] = NoTask}
             IN /\ tasks' = ts
                /\ current' = id
                /\ history' = hist
                /\ epc' = pcs
                /\ ret' = Call("create_task", id, "ok", op)
                \* the thread of a dropped task ended long ago: forget its record
                /\ wpc' = [i \in Ids |-> IF i \in gone THEN "none" ELSE wpc[i]]
                /\ cause' = [i \in Ids |-> IF i \in gone THEN "none" ELSE cause[i]]
                /\ polls' = [i \in Ids |-> IF i \in gone THEN 0 ELSE polls[i]]
                /\ hwInit' = hwInit \ gone
                /\ hwStop' = hwStop \ gone
                /\ requested' = [i \in Ids |-> IF i \in gone THEN "none" ELSE requested[i]]
                /\ atExit' = [i \in Ids |-> IF i \in gone THEN FALSE ELSE atExit[i]]
          /\ nextId' = nextId + 1
          /\ now' = now + 1
          /\ UNCHANGED <<sched, ready, sent>>

\* TaskManager.cancel_task(task_id), as the stop endpoints and the example
\* scripts call it.
CancelTask(id) ==
  /\ sched = 0
  /\ LET found == get_task(current, history, id)
     IN IF found = 0
        THEN /\ ret' = Call("cancel_task", id, "NotFound", "none")
             /\ UNCHANGED <<tasks, requested>>
        ELSE IF tasks[found].status \notin Cancellable
        THEN /\ ret' = Call("cancel_task", id, "InvalidState", "none")
             /\ tasks' = [tasks EXCEPT ![found] = cancel_attempt(tasks[found])]
             /\ UNCHANGED requested
        ELSE /\ ret' = Call("cancel_task", id, "ok", "none")
             /\ tasks' = [tasks EXCEPT ![found] = cancel_attempt(tasks[found])]
             /\ requested' = [requested EXCEPT ![found] = tasks[found].status]
  /\ UNCHANGED <<current, history, nextId, now, epc, sched, wpc, cause, polls,
                 ready, hwInit, hwStop, atExit, sent>>

\* an emergency stop that cancels a running task only
EmergencyCancels_running_only == {RUNNING}

\* the statuses of the current task on which emergency_stop calls cancel_task
EmergencyCancels == {PENDING, RUNNING}

\* POST /move/emergency_stop: cancel the current task when it is pending or
\* running (an error of cancel_task is swallowed), then the hardware emergency
\* stop.  success: whether every axis accepted its stop call.
EmergencyStop(success) ==
  /\ sched = 0
  /\ IF current # 0 /\ tasks[current].status \in EmergencyCancels
     THEN IF tasks[current].status \in Cancellable
          THEN /\ tasks' = [tasks EXCEPT ![current] = cancel_task(tasks[current])]
               /\ requested' = [requested EXCEPT ![current] = tasks[current].status]
          ELSE UNCHANGED <<tasks, requested>>
     ELSE UNCHANGED <<tasks, requested>>
  /\ ret' = Call("emergency_stop", current, "ok",
                 IF success THEN "hardware_stopped" ELSE "hardware_stop_failed")
  /\ UNCHANGED <<current, history, nextId, now, epc, sched, wpc, cause, polls,
                 ready, hwInit, hwStop, atExit, sent>>

\* ---------------------------------------------------------------- executor
\* an operation body that validates nothing and always starts its worker
body_prefix_unchecked(op, req) == "spawn"

\* What execute_operation does before it awaits the worker thread: "spawn",
\* or the error it raises before any worker exists.
body_prefix(op, req) ==
  CASE op = AXIS_MOVEMENT /\ req = "bad_type" -> "invalid_type"
    [] op = AXIS_MOVEMENT /\ req = "bad_axis" -> "invalid_axis"
    [] op = AXIS_MOVEMENT /\ req = "no_target" -> "missing_target"
    [] op \in {FLAT_ALIGNMENT, FOCUS_ALIGNMENT} /\ req = "unknown" -> "unknown_type"
    \* neither controller class defines execute_profile_measurement_async:
    \* the attribute lookup in profile_task.py line 33 raises AttributeError
    [] op = PROFILE_MEASUREMENT -> "missing_method"
    [] OTHER -> "spawn"

\* the axis body without its should_cancel check: every error is re-raised
motion_outcome_reraise(c, sig) ==
  CASE c = "success" -> "result"
    [] OTHER -> "Exception"

\* MotionTaskExecutor.execute_operation after its await: what it returns or raises.
\* c: how the blocking part ended; sig: should_cancel(task) at that moment.
motion_outcome(c, sig) ==
  CASE c \in {"invalid_type", "invalid_axis"} -> "Exception"
    [] c = "success" -> "result"
    [] OTHER -> IF sig THEN "OperationCancelled" ELSE "Exception"

\* AlignmentTaskExecutor.execute_operation after its await.
alignment_outcome(c, sig) ==
  CASE c = "success" -> "result"
    [] OTHER -> "Exception"

\* AngleAdjustmentTaskExecutor.execute_operation after its await.  The worker
\* returns None when it is not connected or when a hardware call raised (the
\* stop call included); every other ending is a response object, and one with
\* success = False is raised as an error.
angle_outcome(c, sig) ==
  CASE c = "success" -> "result"
    [] c \in {"not_connected", "exception", "stop_failed"} ->
         IF sig THEN "OperationCancelled" ELSE "Exception"
    [] OTHER -> "Exception"

\* ProfileMeasurementTaskExecutor.execute_operation: what it returns or raises.
\* Only "missing_method" reaches it; the rest is what the code after the await
\* would do with a response.
profile_outcome(c, sig) ==
  CASE c = "missing_method" -> "Exception"
    [] c = "success" -> "result"
    [] c = "exception" -> IF sig THEN "OperationCancelled" ELSE "Exception"
    [] c = "cancelled" -> "OperationCancelled"
    [] OTHER -> "Exception"

execute_operation(op, c, sig) ==
  CASE op = AXIS_MOVEMENT -> motion_outcome(c, sig)
    [] op \in {FLAT_ALIGNMENT, FOCUS_ALIGNMENT} -> alignment_outcome(c, sig)
    [] op = ANGLE_ADJUSTMENT -> angle_outcome(c, sig)
    [] OTHER -> profile_outcome(c, sig)

\* the error text with every failure reported alike
error_message_generic(op, c) == "unknown"

\* str(e) of the exception execute() catches, by what it tells about the
\* ending c of the blocking part.  The angle worker swallows a hardware
\* exception and returns None: the executor's text is then "returned None
\* (unknown error)"; every other text names the ending.
error_message(op, c) ==
  IF op = ANGLE_ADJUSTMENT /\ c \in {"not_connected", "exception", "stop_failed"}
  THEN "returned_none"
  ELSE c

\* execute() re-raising the cancellation after recording it
execute_ends_reraise(outcome) ==
  IF outcome = "OperationCancelled" THEN "raise" ELSE "return"

\* How execute() ends after it handled an outcome of the body: every handler
\* returns (base_task.py lines 108, 119, 136).
execute_ends(outcome) == "return"

\* BaseTaskExecutor.execute, first step: look the task up, mark it running,
\* broadcast, run the body up to its await.
ExecStart(id) ==
  /\ sched = 0
  /\ epc[id] = "scheduled"
  /\ ret' = NoCall
  /\ IF get_task(current, history, id) = 0
     THEN /\ epc' = [epc EXCEPT ![id] = "raised"]
          /\ UNCHANGED sent
          /\ UNCHANGED <<tasks, current, history, nextId, now, sched, wpc, cause,
                         polls, ready, hwInit, hwStop>>
     ELSE LET t == update_progress(update_status(tasks[id], RUNNING, now),
                                   [message |-> "Task execution started"])
              pre == body_prefix(t.operation_type, t.request_data)
          IN /\ tasks' = [tasks EXCEPT ![id] = t]
             /\ sent' = broadcast(sent, t)
             /\ now' = now + 1
             /\ IF pre = "spawn"
                THEN /\ epc' = [epc EXCEPT ![id] = "await"]
                     /\ wpc' = [wpc EXCEPT ![id] = "init"]
                     /\ UNCHANGED <<sched, cause>>
                ELSE /\ epc' = [epc EXCEPT ![id] = "raising"]
                     /\ cause' = [cause EXCEPT ![id] = pre]
                     /\ sched' = id
                     /\ UNCHANGED wpc
             /\ UNCHANGED <<current, history, nextId, polls, ready, hwInit, hwStop>>
  /\ UNCHANGED requested
  /\ UNCHANGED atExit

\* BaseTaskExecutor.execute, last step: the body returned or raised; record the
\* terminal state, broadcast, and run the finally clause.
ExecFinish(id) ==
  /\ \/ epc[id] = "raising" /\ sched = id
     \/ epc[id] = "await" /\ sched = 0 /\ ready # <<>> /\ ready[Turn(ready)] = Done(id)
  /\ ret' = NoCall
  /\ ready' = IF epc[id] = "await" THEN Remove(ready, Turn(ready)) ELSE ready
  /\ sched' = 0
  /\ LET t == tasks[id]
         outcome == execute_operation(t.operation_type, cause[id], t.cancellation_event)
         found == get_task(current, history, id) # 0
         t1 == CASE outcome = "result" ->
                      update_progress(complete_task(t, "result", now),
                                      [message |-> "Task completed successfully"])
                 [] outcome = "OperationCancelled" ->
                      update_progress(update_status(t, CANCELLED, now),
                                      [message |-> "Task cancelled"])
                 [] OTHER ->
                      update_progress(fail_task(t, error_message(t.operation_type, cause[id]), now),
                                      [message |-> "Task failed"])
         ts == IF found THEN [tasks EXCEPT ![id] = t1] ELSE tasks
         pcs == [epc EXCEPT ![id] = IF found /\ execute_ends(outcome) = "return"
                                    THEN "done" ELSE "raised"]
         cur == clear_current_task(ts, current)
     IN /\ tasks' = Reachable(ts, cur, history, pcs)
        /\ epc' = pcs
        /\ current' = cur
        /\ sent' = IF found THEN broadcast(sent, t1) ELSE sent
  /\ now' = now + 1
  /\ UNCHANGED <<history, nextId, wpc, cause, polls, hwInit, hwStop>>
  /\ UNCHANGED requested
  /\ UNCHANGED atExit

\* execute() called with an id the registry does not hold: ValueError at the
\* lookup, nothing else happens.
ExecuteMissing(id) ==
  /\ sched = 0
  /\ get_task(current, history, id) = 0
  /\ id \in Ids => epc[id] \in {"done", "raised"}
  /\ ret' = Call("execute", id, "NotFound", "none")
  /\ UNCHANGED <<tasks, current, history, nextId, now, epc, sched, wpc, cause,
                 polls, ready, hwInit, hwStop>>
  /\ UNCHANGED requested
  /\ UNCHANGED sent
  /\ UNCHANGED atExit

\* update_status, update_progress, complete_task or fail_task called with an
\* id the registry does not hold: each looks the task up first and raises
\* ValueError, nothing else happens.
RegistryMissing(op, id) ==
  /\ sched = 0
  /\ get_task(current, history, id) = 0
  /\ id \in Ids => epc[id] \in {"done", "raised"}
  /\ ret' = Call(op, id, "NotFound", "none")
  /\ UNCHANGED <<tasks, current, history, nextId, now, epc, sched, wpc, cause,
                 polls, ready, hwInit, hwStop>>
  /\ UNCHANGED requested
  /\ UNCHANGED atExit
  /\ UNCHANGED sent

\* The event loop runs a broadcast_progress coroutine a worker scheduled with
\* run_coroutine_threadsafe: update_progress, ValueError when the task is gone.
DeliverProgress ==
  /\ sched = 0
  /\ ready # <<>>
  /\ ready[Turn(ready)].kind = "patch"
  /\ LET m == ready[Turn(ready)]
         found == get_task(current, history, m.id) # 0
     IN /\ tasks' = IF found
                    THEN [tasks EXCEPT ![m.id] = update_progress(tasks[m.id], m.patch)]
                    ELSE tasks
        /\ sent' = IF found
                   THEN broadcast(sent, update_progress(tasks[m.id], m.patch))
                   ELSE sent
  /\ ready' = Remove(ready, Turn(ready))
  /\ ret' = NoCall
  /\ UNCHANGED <<current, history, nextId, now, epc, sched, wpc, cause, polls,
                 hwInit, hwStop>>
  /\ UNCHANGED requested
  /\ UNCHANGED atExit

\* ---------------------------------------------------------------- workers
\* sync_execution of move_absolute_async / move_relative_async,
\* execute_flat_alignment_async / execute_focus_alignment_async and
\* execute_angle_adjustment_async, run by asyncio.to_thread.
Exit(id, c) ==
  /\ wpc' = [wpc EXCEPT ![id] = "exited"]
  /\ cause' = [cause EXCEPT ![id] = c]
  /\ polls' = [polls EXCEPT ![id] = 0]
  /\ atExit' = [atExit EXCEPT ![id] = tasks[id].cancellation_event]

\* the patch a worker emits once the operation is started
start_patch(op) ==
  IF op = AXIS_MOVEMENT
  THEN [message |-> "started"]
  ELSE [phase |-> "Starting", message |-> "started"]

\* the patches a worker emits when it leaves with a response object
end_patch(op, c) ==
  CASE op = AXIS_MOVEMENT /\ c = "success" ->
         <<[progress_percent |-> 100, message |-> "completed"]>>
    [] op = ANGLE_ADJUSTMENT /\ c = "success" ->
         <<[phase |-> "Completed", progress_percent |-> 100, message |-> "completed"]>>
    [] op = ANGLE_ADJUSTMENT /\ c = "failure" ->
         <<[phase |-> "Failed", message |-> "failed"]>>
    [] op = ANGLE_ADJUSTMENT /\ c = "timeout" ->
         <<[phase |-> "Timeout", message |-> "timeout"]>>
    [] op = ANGLE_ADJUSTMENT /\ c \in {"exception", "stop_failed"} ->
         <<[phase |-> "Error", message |-> "exception"]>>
    [] OTHER -> <<>>

Emit(id, ps) == [i \in 1..Len(ps) |-> Patch(id, ps[i])]

\* a thread that ends without completing the future the executor awaits
Leave_silent(id, c) ==
  /\ Exit(id, c)
  /\ ready' = ready

\* a thread whose completion reaches the event loop before its last patches
Leave_done_first(id, c) ==
  /\ Exit(id, c)
  /\ ready' = ready \o <<Done(id)>> \o Emit(id, end_patch(tasks[id].operation_type, c))

\* Leaving the thread: the patches first, then the completion of the future
\* the executor awaits.
Leave(id, c) ==
  /\ Exit(id, c)
  /\ ready' = ready \o Emit(id, end_patch(tasks[id].operation_type, c)) \o <<Done(id)>>

\* a loop that never looks at the cancellation event
observes_never(sig) == FALSE

\* the test at the top of every iteration:
\* cancellation_event and cancellation_event.is_set()
observes(sig) == sig

\* time.time() - start_time > timeout, after n iterations that found the
\* hardware busy: the budget is spent at the latest after MaxPolls of them
budget_spent(n, late) == late \/ n >= MaxPolls

\* whether the worker issues the hardware stop call when its budget is spent
stops_on_timeout(op) == op # ANGLE_ADJUSTMENT

\* Up to the initiating call.  how: "down" (not connected, or the axis is not
\* valid: detected before the try block), "raises" (a hardware call up to and
\* including the initiating one raises), "locked" (angle adjustment only: the
\* contact sensor is locked), "ok".
WorkerInit(id, how) ==
  /\ wpc[id] = "init"
  /\ ret' = NoCall
  /\ LET op == tasks[id].operation_type
     IN CASE how = "down" ->
               /\ Leave(id, "not_connected")
               /\ UNCHANGED hwInit
          [] how = "raises" ->
               /\ Leave(id, "exception")
               /\ UNCHANGED hwInit
          [] how = "locked" ->
               /\ op = ANGLE_ADJUSTMENT
               /\ Leave(id, "locked")
               /\ UNCHANGED hwInit
          [] OTHER ->
               /\ hwInit' = hwInit \cup {id}
               /\ wpc' = [wpc EXCEPT ![id] = "check"]
               /\ ready' = Append(ready, Patch(id, start_patch(op)))
               /\ UNCHANGED <<cause, polls, atExit>>
  /\ UNCHANGED <<tasks, current, history, nextId, now, epc, sched, hwStop>>
  /\ UNCHANGED requested
  /\ UNCHANGED sent

\* Top of the loop: the cancellation event is read first.  stopped: the stop
\* call returns without raising.
WorkerCheck(id, stopped) ==
  /\ wpc[id] = "check"
  /\ ret' = NoCall
  /\ IF observes(tasks[id].cancellation_event)
     THEN /\ hwStop' = hwStop \cup {id}
          /\ Leave(id, IF stopped THEN "cancelled" ELSE "stop_failed")
     ELSE /\ wpc' = [wpc EXCEPT ![id] = "query"]
          /\ UNCHANGED <<hwStop, cause, ready, polls, atExit>>
  /\ UNCHANGED <<tasks, current, history, nextId, now, epc, sched, hwInit>>
  /\ UNCHANGED requested
  /\ UNCHANGED sent

\* The status query and what follows it in the same iteration.
\* st: what the hardware reports; note: whether a progress patch is emitted;
\* late: whether the wall-clock budget is spent.
WorkerQuery(id, st, note, late) ==
  /\ wpc[id] = "query"
  /\ ret' = NoCall
  /\ LET op == tasks[id].operation_type
         p == IF op = AXIS_MOVEMENT
              THEN [progress_percent |-> polls[id]]
              ELSE [phase |-> "Searching", message |-> "phase"]
         q == IF note THEN Append(ready, Patch(id, p)) ELSE ready
     IN CASE st = "busy" ->
               IF budget_spent(polls[id], late)
               THEN /\ hwStop' = IF stops_on_timeout(op) THEN hwStop \cup {id} ELSE hwStop
                    /\ Exit(id, "timeout")
                    /\ ready' = q \o Emit(id, end_patch(op, "timeout")) \o <<Done(id)>>
               ELSE /\ wpc' = [wpc EXCEPT ![id] = "check"]
                    /\ polls' = [polls EXCEPT ![id] = polls[id] + 1]
                    /\ ready' = q
                    /\ UNCHANGED <<hwStop, cause, atExit>>
          [] st = "success" ->
               /\ wpc' = [wpc EXCEPT ![id] = "settle"]
               /\ ready' = q
               /\ UNCHANGED <<hwStop, cause, polls, atExit>>
          [] st = "failure" ->
               /\ op # AXIS_MOVEMENT
               /\ Exit(id, "failure")
               /\ ready' = q \o Emit(id, end_patch(op, "failure")) \o <<Done(id)>>
               /\ UNCHANGED hwStop
          [] OTHER ->
               \* the query raises; the axis loop swallows it and takes the
               \* axis as stopped
               /\ op # AXIS_MOVEMENT => ~note
               /\ IF op = AXIS_MOVEMENT
                  THEN /\ wpc' = [wpc EXCEPT ![id] = "settle"]
                       /\ ready' = q
                       /\ UNCHANGED <<cause, polls, atExit>>
                  ELSE Leave(id, "exception")
               /\ UNCHANGED hwStop
  /\ UNCHANGED <<tasks, current, history, nextId, now, epc, sched, hwInit>>
  /\ UNCHANGED requested
  /\ UNCHANGED sent

\* The settling delay and the final readback.  ok: the readback does not raise
\* (the axis loop swallows a failed readback).
WorkerSettle(id, ok) ==
  /\ wpc[id] = "settle"
  /\ ret' = NoCall
  /\ Leave(id, IF ok \/ tasks[id].operation_type = AXIS_MOVEMENT
               THEN "success" ELSE "exception")
  /\ UNCHANGED <<tasks, current, history, nextId, now, epc, sched, hwInit, hwStop>>
  /\ UNCHANGED requested
  /\ UNCHANGED sent

\* ---------------------------------------------------------------- system
Next ==
  \/ \E op \in OperationType : \E req \in Requests(op) : CreateTask(op, req)
  \/ \E id \in Ids \cup {UnknownId} : CancelTask(id)
  \/ \E success \in BOOLEAN : EmergencyStop(success)
  \/ \E id \in Ids : ExecStart(id)
  \/ \E id \in Ids : ExecFinish(id)
  \/ \E id \in Ids \cup {UnknownId} : ExecuteMissing(id)
  \/ \E op \in {"update_status", "update_progress", "complete_task", "fail_task"} :
       \E id \in Ids \cup {UnknownId} : RegistryMissing(op, id)
  \/ DeliverProgress
  \/ \E id \in Ids : \E how \in {"ok", "down", "raises", "locked"} : WorkerInit(id, how)
  \/ \E id \in Ids : \E stopped \in BOOLEAN : WorkerCheck(id, stopped)
  \/ \E id \in Ids : \E st \in {"busy", "success", "failure", "raises"} :
       \E note \in BOOLEAN : \E late \in BOOLEAN : WorkerQuery(id, st, note, late)
  \/ \E id \in Ids : \E ok \in BOOLEAN : WorkerSettle(id, ok)

Spec == Init /\ [][Next]_vars

\* Scheduling.  The event loop runs every ready callback (a scheduled
\* execute(), a delivered patch, the resumption of an executor whose future
\* completed), and the operating system runs every worker thread: each step
\* that stays enabled is eventually taken.  The requests of the clients
\* (create, cancel, emergency stop) are under no obligation.
Fairness ==
  /\ WF_vars(DeliverProgress)
  /\ \A id \in Ids :
       /\ WF_vars(ExecStart(id))
       /\ WF_vars(ExecFinish(id))
       /\ WF_vars(\E how \in {"ok", "down", "raises", "locked"} : WorkerInit(id, how))
       /\ WF_vars(\E stopped \in BOOLEAN : WorkerCheck(id, stopped))
       /\ WF_vars(\E st \in {"busy", "success", "failure", "raises"} :
                    \E note \in BOOLEAN : \E late \in BOOLEAN : WorkerQuery(id, st, note, late))
       /\ WF_vars(\E ok \in BOOLEAN : WorkerSettle(id, ok))

LiveSpec == Spec /\ Fairness

\* ---------------------------------------------------------------- properties
Exists(i) == tasks[i] # NoTask
Held(i) == i = current \/ i \in SeqToSet(history)
Finished(i) == Exists(i) /\ epc[i] = "done"

\* C1: at most one task has a non-terminal status (pending, running or
\* stopping), counted over every live Task object: the current slot, the
\* history, and a task pruned from the history whose executor still runs.
C1_SingleNonTerminal ==
  Cardinality({i \in Ids : Exists(i) /\ tasks[i].status \notin Terminal}) <= 1

\* C1 witness: a create was just refused while the second task created is
\* running, its worker in the poll loop.
C1_Witness ==
  /\ ret.op = "create_task" /\ ret.res = "Conflict"
  /\ nextId = 3
  /\ Held(2) /\ tasks[2].status = RUNNING /\ wpc[2] = "query"

\* C2: a create_task call made while the current task is pending, running or
\* stopping fails with Conflict, whatever the operation kind, and leaves every
\* task, the current slot and the history as they were.
C2_ConflictLeavesAll ==
  [][(ret'.op = "create_task" /\ current # 0 /\ tasks[current].status \notin Terminal)
       => /\ ret'.res = "Conflict"
          /\ tasks' = tasks /\ current' = current /\ history' = history
          /\ epc' = epc]_vars

\* C2 witness: a create for a profile measurement was refused while the current
\* task is stopping.
C2_Witness ==
  /\ ret.op = "create_task" /\ ret.res = "Conflict" /\ ret.arg = PROFILE_MEASUREMENT
  /\ current # 0 /\ tasks[current].status = STOPPING

Edges ==
  {<<PENDING, RUNNING>>, <<PENDING, STOPPING>>, <<RUNNING, STOPPING>>,
   <<RUNNING, COMPLETED>>, <<RUNNING, FAILED>>,
   <<STOPPING, CANCELLED>>, <<STOPPING, FAILED>>}

\* C3: every change of a task's status follows an edge of the state machine
\* (pending->running, pending/running->stopping, running->completed,
\* running->failed, stopping->cancelled, stopping->failed).
C3_OnlyEdges ==
  [][\A i \in Ids :
       (Exists(i) /\ tasks'[i] # NoTask /\ tasks'[i].status # tasks[i].status)
         => <<tasks[i].status, tasks'[i].status>> \in Edges]_vars

\* C4: a task whose status is completed, failed or cancelled keeps that status
\* in every later step, as long as the Task object lives.
C4_TerminalIsFinal ==
  [][\A i \in Ids :
       (Exists(i) /\ tasks[i].status \in Terminal /\ tasks'[i] # NoTask)
         => tasks'[i].status = tasks[i].status]_vars

\* C4 witness: cancel_task was just refused on a task that is already cancelled.
C4_Witness ==
  /\ ret.op = "cancel_task" /\ ret.res = "InvalidState"
  /\ ret.id \in Ids /\ Exists(ret.id) /\ tasks[ret.id].status = CANCELLED

\* C5: an axis-movement task whose worker saw the cancellation event in its
\* poll loop ends cancelled, not failed, whenever the cancellation was
\* requested (while running, or before the executor started).
C5_MotionCancelled ==
  \A i \in Ids :
    (Finished(i) /\ tasks[i].operation_type = AXIS_MOVEMENT
       /\ cause[i] \in {"cancelled", "stop_failed"})
      => tasks[i].status = CANCELLED

\* C5 witness: a finished axis movement whose worker stopped the axis on the
\* cancellation event, after at least one status query.
C5_Witness ==
  \E i \in Ids :
    /\ Finished(i) /\ tasks[i].operation_type = AXIS_MOVEMENT
    /\ requested[i] = RUNNING
    /\ cause[i] = "cancelled" /\ i \in hwStop
    /\ "progress_percent" \in DOMAIN tasks[i].progress
    /\ tasks[i].status = CANCELLED

\* C6: a flat or focus alignment task cancelled while running, whose worker
\* saw the cancellation event in its poll loop and stopped the hardware, ends
\* cancelled, not failed.
C6_AlignmentCancelled ==
  \A i \in Ids :
    (Finished(i) /\ tasks[i].operation_type \in {FLAT_ALIGNMENT, FOCUS_ALIGNMENT}
       /\ requested[i] = RUNNING /\ cause[i] = "cancelled" /\ i \in hwStop)
      => tasks[i].status = CANCELLED

\* C7: an angle-adjustment task cancelled while running, whose worker saw the
\* cancellation event in its poll loop and stopped the hardware, ends
\* cancelled, not failed.
C7_AngleCancelled ==
  \A i \in Ids :
    (Finished(i) /\ tasks[i].operation_type = ANGLE_ADJUSTMENT
       /\ requested[i] = RUNNING /\ cause[i] = "cancelled" /\ i \in hwStop)
      => tasks[i].status = CANCELLED

\* C8: once execute() has returned for a task it found, the task is terminal
\* and is not the current task, so create_task is not refused because of it.
C8_ReturnReleases ==
  \A i \in Ids :
    Finished(i) => /\ tasks[i].status \in Terminal
                   /\ current # i

\* C8 witness: execute() returned for a cancelled task and the slot is free.
C8_Witness ==
  \E i \in Ids : Finished(i) /\ tasks[i].status = CANCELLED /\ current = 0

C10_CancelGuard ==
  [][(ret'.op = "cancel_task" /\ Held(ret'.id))
       => LET i == ret'.id
          IN IF tasks[i].status \in {PENDING, RUNNING}
             THEN /\ ret'.res = "ok"
                  /\ tasks'[i].cancellation_event
                  /\ tasks'[i].status = STOPPING
             ELSE /\ ret'.res = "InvalidState"
                  /\ tasks' = tasks]_vars

\* C10 witness: a second cancel_task on a task that is stopping was refused,
\* the event still set.
C10_Witness ==
  /\ ret.op = "cancel_task" /\ ret.res = "InvalidState"
  /\ ret.id \in Ids /\ Exists(ret.id)
  /\ tasks[ret.id].status = STOPPING /\ tasks[ret.id].cancellation_event

\* C11: once cancel_task has succeeded on a task, every later cancel_task on
\* that task fails with InvalidState, and the task is stopping or terminal in
\* every later state, whatever its executor does in between.
C11_CancelOnce ==
  [][\A i \in Ids :
       (Exists(i) /\ Held(i) /\ requested[i] # "none" /\ tasks'[i] # NoTask)
         => /\ tasks'[i].status \in {STOPPING} \cup Terminal
            /\ (ret'.op = "cancel_task" /\ ret'.id = i) => ret'.res = "InvalidState"]_vars

\* C12: a task's cancellation event, once set, stays set in every later state
\* of the task.
C12_SignalStaysSet ==
  [][\A i \in Ids :
       (Exists(i) /\ tasks[i].cancellation_event /\ tasks'[i] # NoTask)
         => tasks'[i].cancellation_event]_vars

\* C12 witness: a task cancelled while pending whose executor then started:
\* it is running and its event is still set.
C12_Witness ==
  \E i \in Ids :
    /\ Exists(i) /\ requested[i] = PENDING
    /\ tasks[i].status = RUNNING /\ tasks[i].cancellation_event

\* C13: no task ever has both result and error set, and a field that is set
\* is not written again: it keeps its value and the task is not completed or
\* failed a second time.
C13_ResultErrorOnce ==
  /\ [](\A i \in Ids :
          Exists(i) => ~(tasks[i].result # "None" /\ tasks[i].error # "None"))
  /\ [][\A i \in Ids :
          (Exists(i) /\ tasks'[i] # NoTask
             /\ (tasks[i].result # "None" \/ tasks[i].error # "None"))
            => /\ tasks'[i].result = tasks[i].result
               /\ tasks'[i].error = tasks[i].error
               /\ tasks'[i].completed_at = tasks[i].completed_at]_vars

\* C13 witness: a task that failed on its worker's timeout: the error is set,
\* the result is not, and execute() is over.
C13_Witness ==
  \E i \in Ids :
    Finished(i) /\ tasks[i].error = "timeout" /\ tasks[i].result = "None"

\* C14: result is set exactly when the status is completed and error exactly
\* when it is failed; so a failed or cancelled task has no result and a
\* completed task has no error.
C14_ResultIffCompleted ==
  \A i \in Ids :
    Exists(i) => /\ (tasks[i].result # "None") <=> (tasks[i].status = COMPLETED)
                 /\ (tasks[i].error # "None") <=> (tasks[i].status = FAILED)

\* C14 witness: a task whose cancellation was requested after the worker's
\* last look at the event: it completed, with a result and no error.
C14_Witness ==
  \E i \in Ids :
    /\ Finished(i) /\ tasks[i].cancellation_event
    /\ tasks[i].status = COMPLETED
    /\ tasks[i].result = "result" /\ tasks[i].error = "None"

\* C15: for every operation kind, a task whose worker spent its wall-clock
\* budget with the hardware still busy, and whose cancellation was never
\* requested, has had the hardware stop call issued by its worker before the
\* failure was recorded, and ends failed with the timeout error.
C15_TimeoutStopsThenFails ==
  \A i \in Ids :
    (Finished(i) /\ cause[i] = "timeout" /\ ~tasks[i].cancellation_event)
      => /\ i \in hwStop
         /\ tasks[i].status = FAILED
         /\ tasks[i].error = "timeout"

\* C16: a task whose worker read a named failure state from the hardware in
\* its poll loop, and whose cancellation was never requested, ends failed, its
\* error carrying the description of that state, its result unset.
C16_HardwareFailureFails ==
  \A i \in Ids :
    (Finished(i) /\ cause[i] = "failure" /\ ~tasks[i].cancellation_event)
      => /\ tasks[i].status = FAILED
         /\ tasks[i].error = "failure"
         /\ tasks[i].result = "None"

\* C16 witness: an angle adjustment that found the hardware busy once and was
\* then told a failure state; no cancellation; the task is failed with that
\* state's description.
C16_Witness ==
  \E i \in Ids :
    /\ Finished(i) /\ tasks[i].operation_type = ANGLE_ADJUSTMENT
    /\ cause[i] = "failure" /\ ~tasks[i].cancellation_event
    /\ "phase" \in DOMAIN tasks[i].progress /\ tasks[i].progress["phase"] = "Failed"
    /\ tasks[i].status = FAILED /\ tasks[i].error = "failure"

\* C17: a task whose cancellation event was set when its worker left the poll
\* loop on an unrelated error (failure state, timeout, hardware exception),
\* without having seen the event, ends failed; a task whose worker entered
\* the loop ends cancelled only when the worker saw the event at the top of it.
C17_FirstObservedWins ==
  \A i \in Ids :
    (Finished(i) /\ i \in hwInit) =>
      /\ (atExit[i] /\ cause[i] \in {"failure", "timeout", "exception"})
           => tasks[i].status = FAILED
      /\ tasks[i].status = CANCELLED => cause[i] \in {"cancelled", "stop_failed"}

\* C18: at the top of every iteration of the poll loop the worker reads the
\* cancellation event before it queries the hardware: when the event is set
\* it issues the stop call and leaves without a query in that iteration, and a
\* query is only ever made right after a test that found the event unset.  So
\* once the event is set the worker makes at most the one query of the
\* iteration in progress before it stops the hardware.
C18_SignalReadFirst ==
  [][\A i \in Ids :
       /\ (Exists(i) /\ wpc[i] = "check" /\ wpc'[i] # "check"
             /\ tasks[i].cancellation_event)
            => /\ wpc'[i] = "exited"
               /\ i \in hwStop'
               /\ cause'[i] \in {"cancelled", "stop_failed"}
       /\ (wpc'[i] = "query" /\ wpc[i] # "query")
            => (wpc[i] = "check" /\ ~tasks[i].cancellation_event)]_vars

\* C18 witness: a focus alignment cancelled while running whose worker, after a
\* query that reported a phase, found the event set at the top of the next
\* iteration, stopped the hardware and left; the executor has not resumed yet.
C18_Witness ==
  \E i \in Ids :
    /\ Exists(i) /\ tasks[i].operation_type = FOCUS_ALIGNMENT
    /\ requested[i] = RUNNING /\ epc[i] = "await"
    /\ wpc[i] = "exited" /\ cause[i] = "cancelled" /\ i \in hwStop
    /\ "phase" \in DOMAIN tasks[i].progress /\ tasks[i].progress["phase"] = "Searching"

\* C19, as stated: when cancellation is requested while the task is running,
\* the worker eventually sees the event (it leaves through the test at the top
\* of its loop), and the task becomes terminal with the current slot released.
C19_ObservesSignal ==
  \A i \in Ids :
    (requested[i] = RUNNING)
      ~> (/\ Exists(i) /\ wpc[i] = "exited"
          /\ cause[i] \in {"cancelled", "stop_failed"}
          /\ tasks[i].status \in Terminal /\ current # i)

\* C19, amended: when cancellation is requested while the task is running, the
\* worker eventually leaves by itself (a live worker is never discarded: it
\* ends through the test at the top of its loop, or through the completion,
\* failure, timeout or exception it met first), and the task eventually is
\* terminal with the current slot released.
C19_CancelledRunsToEnd ==
  /\ \A i \in Ids :
       (requested[i] = RUNNING)
         ~> (/\ Exists(i) /\ wpc[i] = "exited"
             /\ tasks[i].status \in Terminal /\ current # i)
  /\ [][\A i \in Ids :
          wpc[i] \in {"init", "check", "query", "settle"}
            => wpc'[i] \in {"init", "check", "query", "settle", "exited"}]_vars

\* C19 witness: a flat alignment cancelled while running; its worker saw the
\* event and left, execute() is over, the task is terminal and the slot free.
C19_Witness ==
  \E i \in Ids :
    /\ Finished(i) /\ tasks[i].operation_type = FLAT_ALIGNMENT
    /\ requested[i] = RUNNING /\ wpc[i] = "exited" /\ cause[i] = "cancelled"
    /\ tasks[i].status \in Terminal /\ current = 0

\* C20: every task whose executor has started eventually is completed, failed
\* or cancelled, also when the hardware never reports completion: no started
\* task stays running or stopping for ever.
C20_StartedTerminates ==
  \A i \in Ids :
    (Exists(i) /\ epc[i] \in {"await", "raising"})
      ~> (Exists(i) /\ tasks[i].status \in Terminal)

\* C20 witness: an axis movement whose hardware stayed busy for the whole
\* budget: the worker stopped the axis and left on the timeout, the task failed.
C20_Witness ==
  \E i \in Ids :
    /\ Finished(i) /\ tasks[i].operation_type = AXIS_MOVEMENT
    /\ cause[i] = "timeout" /\ i \in hwStop /\ ~tasks[i].cancellation_event
    /\ tasks[i].status = FAILED

\* C21: at most one operation worker is in flight: the initiating hardware
\* call of a task is issued only when no other task's worker is alive, and a
\* task is terminal only when its own worker has exited (or never existed).
C21_SingleWorker ==
  /\ [](Cardinality({i \in Ids : wpc[i] \in {"init", "check", "query", "settle"}}) <= 1)
  /\ [](\A i \in Ids :
          (Exists(i) /\ tasks[i].status \in Terminal) => wpc[i] \in {"none", "exited"})
  /\ [][\A i \in Ids :
          (i \in hwInit' /\ i \notin hwInit)
            => \A j \in Ids \ {i} : wpc[j] \in {"none", "exited"}]_vars

\* C21 witness: the worker of the second task is polling, its initiating call
\* issued, after the first task's worker has gone; cancellation of the second
\* task is pending.
C21_Witness ==
  /\ 2 \in hwInit /\ wpc[2] = "query" /\ wpc[1] \in {"none", "exited"}
  /\ Exists(2) /\ tasks[2].status = STOPPING

\* C22: every step of the executor that makes a task completed, failed or
\* cancelled hands exactly one message to the broadcast callback, built after
\* the transition: it names the task and carries the terminal status.
C22_TerminalBroadcastOnce ==
  [][\A i \in Ids :
       (Exists(i) /\ tasks'[i] # NoTask
          /\ tasks[i].status \notin Terminal /\ tasks'[i].status \in Terminal)
         => /\ Len(sent') = Len(sent) + 1
            /\ sent'[Len(sent')].task_id = i
            /\ sent'[Len(sent')].status = tasks'[i].status]_vars

\* C23: every step that changes a task's status (to running, stopping,
\* completed, failed, cancelled) or applies a progress update to it emits
\* exactly one message, appended after those already emitted, with the task's
\* id, operation kind, status and progress as they are after the step.
C23_EveryChangeBroadcast ==
  [][\A i \in Ids :
       (Exists(i) /\ tasks'[i] # NoTask
          /\ (tasks'[i].status # tasks[i].status \/ tasks'[i].progress # tasks[i].progress))
         => /\ Len(sent') = Len(sent) + 1
            /\ SubSeq(sent', 1, Len(sent)) = sent
            /\ sent'[Len(sent')] = Message(tasks'[i])]_vars

\* the patches of task i that its worker has emitted and that are not applied
\* yet, in the order of emission
Pending(q, i) ==
  LET OfTask(m) == m.kind = "patch" /\ m.id = i
  IN SelectSeq(q, OfTask)

\* C24: the patches a worker emits for its task are applied to the task's
\* progress in the order of emission and none is dropped: in every step the
\* patches not yet applied stay as they are, or grow at their end by what the
\* worker emits, or lose their first one, which is then merged into the
\* progress of the task.
C24_PatchesInOrder ==
  [][\A i \in Ids :
       LET p == Pending(ready, i)
           q == Pending(ready', i)
       IN \/ q = p
          \/ Len(q) > Len(p) /\ SubSeq(q, 1, Len(p)) = p
          \/ /\ p # <<>> /\ q = Tail(p)
             /\ Exists(i) /\ tasks'[i] # NoTask
             /\ tasks'[i].progress = Merge(tasks[i].progress, Head(p).patch)]_vars

\* C24 witness: the first patch of an alignment worker ("Starting") is applied
\* while the patch of its first query ("Searching") still waits.
C24_Witness ==
  \E i \in Ids :
    /\ Exists(i) /\ "phase" \in DOMAIN tasks[i].progress
    /\ tasks[i].progress["phase"] = "Starting"
    /\ Pending(ready, i) # <<>>
    /\ Head(Pending(ready, i)).patch = [phase |-> "Searching", message |-> "phase"]

\* C25: update_progress sets each key of the patch to the patch's value and
\* leaves every other key of progress and every other field of the task as
\* they were; and no step at all removes a key from a task's progress.
C25_ProgressMerge ==
  [][\A i \in Ids :
       (Exists(i) /\ tasks'[i] # NoTask) =>
         /\ DOMAIN tasks[i].progress \subseteq DOMAIN tasks'[i].progress
         /\ (Pending(ready, i) # <<>> /\ Pending(ready', i) = Tail(Pending(ready, i)))
              => LET patch == Head(Pending(ready, i)).patch
                     old == tasks[i].progress
                     new == tasks'[i].progress
                 IN /\ DOMAIN new = DOMAIN old \cup DOMAIN patch
                    /\ \A k \in DOMAIN patch : new[k] = patch[k]
                    /\ \A k \in DOMAIN old \ DOMAIN patch : new[k] = old[k]
                    /\ [tasks'[i] EXCEPT !.progress = old] = tasks[i]]_vars

\* C25 witness: an axis movement whose progress holds the message of the
\* worker's first patch (written over the executor's) next to the
\* progress_percent a later patch added.
C25_Witness ==
  \E i \in Ids :
    /\ Exists(i) /\ tasks[i].status = RUNNING
    /\ DOMAIN tasks[i].progress = {"message", "progress_percent"}
    /\ tasks[i].progress["message"] = "started"

\* C26: a registry call that fails with Conflict, NotFound or InvalidState
\* (create_task, update_status, update_progress, complete_task, fail_task,
\* cancel_task) leaves the current slot, the history and every field of every
\* task as they were.
C26_FailureTouchesNothing ==
  [][(ret'.op \in {"create_task", "update_status", "update_progress",
                   "complete_task", "fail_task", "cancel_task"}
        /\ ret'.res \in {"Conflict", "NotFound", "InvalidState"})
       => /\ tasks' = tasks
          /\ current' = current
          /\ history' = history]_vars

\* C26 witness: cancel_task was just refused with InvalidState on a completed
\* task that was never cancelled: its event is still unset.
C26_Witness ==
  /\ ret.op = "cancel_task" /\ ret.res = "InvalidState"
  /\ ret.id \in Ids /\ Exists(ret.id)
  /\ tasks[ret.id].status = COMPLETED /\ ~tasks[ret.id].cancellation_event

\* C27: a create_task call made when there is no current task, or when the
\* current task is terminal, succeeds: the task it returns has an id no
\* existing task has, is pending, with empty progress, no result, no error and
\* an unset event; it is the current task and it is in the history.
C27_CreateFresh ==
  [][(ret'.op = "create_task" /\ (current = 0 \/ tasks[current].status \in Terminal))
       => LET id == ret'.id
          IN /\ ret'.res = "ok"
             /\ id \in Ids /\ ~Exists(id) /\ id \notin SeqToSet(history)
             /\ \A j \in Ids : epc[j] # "none" => j # id
             /\ tasks'[id].task_id = id
             /\ tasks'[id].operation_type = ret'.arg
             /\ tasks'[id].status = PENDING
             /\ tasks'[id].progress = NoProgress
             /\ tasks'[id].result = "None" /\ tasks'[id].error = "None"
             /\ ~tasks'[id].cancellation_event
             /\ current' = id
             /\ id \in SeqToSet(history')]_vars

\* C27 witness: the second create_task has just succeeded, the first task
\* being over: the new task is pending, current, and in the history.
C27_Witness ==
  /\ ret.op = "create_task" /\ ret.res = "ok" /\ ret.id = 2
  /\ Exists(2) /\ tasks[2].status = PENDING /\ tasks[2].progress = NoProgress
  /\ current = 2 /\ 2 \in SeqToSet(history)

\* the ids create_task has handed out so far, oldest first
Created == [k \in 1..(nextId - 1) |-> k]

C29_EvictsOnlyTerminal ==
  /\ [][\A i \in Ids :
          /\ (i \in SeqToSet(history) /\ i \notin SeqToSet(history'))
               => (Exists(i) /\ tasks[i].status \in Terminal)
          /\ (ret'.op = "create_task" /\ ret'.res = "ok" /\ ret'.id = i)
               => i \in SeqToSet(history')]_vars
  /\ [](current # 0 =>
          /\ Exists(current)
          /\ tasks[current].status \notin Terminal
               => /\ get_task(current, history, current) = current
                  /\ current \in SeqToSet(history))

\* C29 witness: the first task was evicted when the second was created; the
\* second, its cancellation requested, is not terminal and get_task finds it.
C29_Witness ==
  /\ nextId = 3 /\ 1 \notin SeqToSet(history) /\ ~Exists(1)
  /\ current = 2 /\ tasks[2].status = STOPPING
  /\ get_task(current, history, 2) = 2

\* C30: get_task(id) returns the task with that id for every task that was
\* created and is not evicted, be it the current task or a terminal task
\* cleared from the current slot, and None for every other id; and the
\* current task is always in the history as well.
C30_GetFindsHeld ==
  /\ current # 0 => current \in SeqToSet(history)
  /\ \A id \in Ids \cup {UnknownId} :
       LET found == get_task(current, history, id)
       IN /\ found = (IF id \in SeqToSet(history) \/ (current # 0 /\ id = current)
                      THEN id ELSE 0)
          /\ found # 0 => (Exists(found) /\ tasks[found].task_id = id)

\* C30 witness: a failed task, cleared from the current slot, is still found
\* by its id, and an id that was never handed out is not.
C30_Witness ==
  \E i \in Ids :
    /\ Finished(i) /\ tasks[i].status = FAILED /\ current = 0
    /\ get_task(current, history, i) = i
    /\ get_task(current, history, UnknownId) = 0

\* C31: in every state completed_at is set exactly when the status is
\* completed, failed or cancelled; started_at is set in the step that makes
\* the task running for the first time (so a running task has it and a
\* pending task has not), and once set it never changes.
C31_Timestamps ==
  /\ [](\A i \in Ids :
          Exists(i) => /\ (tasks[i].completed_at # 0) <=> (tasks[i].status \in Terminal)
                       /\ tasks[i].status = RUNNING => tasks[i].started_at # 0
                       /\ tasks[i].status = PENDING => tasks[i].started_at = 0)
  /\ [][\A i \in Ids :
          (Exists(i) /\ tasks'[i] # NoTask) =>
            /\ tasks[i].started_at # 0 => tasks'[i].started_at = tasks[i].started_at
            /\ (tasks[i].started_at = 0 /\ tasks'[i].started_at # 0)
                 => (tasks[i].status # RUNNING /\ tasks'[i].status = RUNNING)
            /\ (tasks[i].status # RUNNING /\ tasks'[i].status = RUNNING)
                 => tasks'[i].started_at # 0]_vars

\* C31 witness: a task cancelled while running whose execute() is over: it was
\* started before it was completed, and both timestamps are set.
C31_Witness ==
  \E i \in Ids :
    /\ Finished(i) /\ requested[i] = RUNNING /\ tasks[i].status = CANCELLED
    /\ tasks[i].started_at # 0
    /\ tasks[i].completed_at > tasks[i].started_at

BadRequests == {"bad_type", "bad_axis", "no_target"}

\* C32: an axis-movement task whose request fails validation (movement type
\* unknown, axis number outside 1..12, position or distance missing) never
\* has a worker, so no initiating call, status query or stop call is issued
\* for it; and when its cancellation was not requested it ends failed, its
\* error naming the violation, its result unset.
C32_InvalidFailsFast ==
  \A i \in Ids :
    (Exists(i) /\ tasks[i].operation_type = AXIS_MOVEMENT
       /\ tasks[i].request_data \in BadRequests)
      => /\ wpc[i] = "none" /\ polls[i] = 0
         /\ i \notin hwInit /\ i \notin hwStop
         /\ (Finished(i) /\ ~tasks[i].cancellation_event)
              => /\ tasks[i].status = FAILED
                 /\ tasks[i].result = "None"
                 /\ tasks[i].error =
                      (CASE tasks[i].request_data = "bad_type" -> "invalid_type"
                         [] tasks[i].request_data = "bad_axis" -> "invalid_axis"
                         [] OTHER -> "missing_target")

\* C32 witness: an absolute-or-relative movement without its target, never
\* cancelled, is over: failed with the error that names the missing target,
\* and no hardware call was made for it.
C32_Witness ==
  \E i \in Ids :
    /\ Finished(i) /\ tasks[i].operation_type = AXIS_MOVEMENT
    /\ tasks[i].request_data = "no_target" /\ ~tasks[i].cancellation_event
    /\ tasks[i].status = FAILED /\ tasks[i].error = "missing_target"
    /\ wpc[i] = "none" /\ i \notin hwInit /\ i \notin hwStop

\* C33: emergency stop requests cancellation of the current task exactly when
\* that task is pending or running: its event is set and its status becomes
\* stopping, nothing else changes.  When there is no current task, or it is
\* stopping or terminal, no task, nor the slot, nor the history changes.  In
\* both cases the hardware emergency stop is issued.
C33_EmergencyStop ==
  [][(ret'.op = "emergency_stop") =>
       /\ ret'.arg \in {"hardware_stopped", "hardware_stop_failed"}
       /\ current' = current /\ history' = history
       /\ IF current # 0 /\ tasks[current].status \in {PENDING, RUNNING}
          THEN tasks' = [tasks EXCEPT ![current] =
                           [@ EXCEPT !.cancellation_event = TRUE, !.status = STOPPING]]
          ELSE tasks' = tasks]_vars

\* C33 witness: an emergency stop has just cancelled the current task while
\* it was pending: the task is stopping, its event set, its executor not
\* started, and the hardware emergency stop was issued.
C33_Witness ==
  /\ ret.op = "emergency_stop" /\ ret.arg = "hardware_stopped"
  /\ current # 0 /\ ret.id = current
  /\ requested[current] = PENDING /\ epc[current] = "scheduled"
  /\ tasks[current].status = STOPPING /\ tasks[current].cancellation_event

\* C34: a task whose cancellation event is set and that is not terminal is
\* stopping, never pending or running, also when the cancellation was
\* requested before its executor started.
C34_SetMeansStopping ==
  \A i \in Ids :
    (Exists(i) /\ tasks[i].cancellation_event /\ tasks[i].status \notin Terminal)
      => tasks[i].status = STOPPING

\* C35: a task on which cancel_task has succeeded never ends completed: when
\* its execute() is over it is cancelled or failed, wherever the worker was
\* in its poll loop or in its settling delay when the request came.
C35_CancelledNeverCompletes ==
  \A i \in Ids :
    (Finished(i) /\ requested[i] # "none") => tasks[i].status \in {CANCELLED, FAILED}

\* C36: for a task whose cancellation was requested while it was pending,
\* before its executor started, the initiating hardware call is never issued.
C36_PendingCancelNeverStarts ==
  \A i \in Ids : requested[i] = PENDING => i \notin hwInit

\* C37: every task that is pending, running or stopping is the current task:
\* the slot never goes to another task while the task it holds is not
\* terminal, and a step that empties it is one that has made that task
\* terminal first (the cleanup of its own executor).
C37_NonTerminalIsCurrent ==
  /\ [](\A i \in Ids :
          (Exists(i) /\ tasks[i].status \notin Terminal) => current = i)
  /\ [][(current # 0 /\ tasks[current].status \notin Terminal /\ current' # current)
          => /\ current' = 0
             /\ tasks'[current] # NoTask
             /\ tasks'[current].status \in Terminal]_vars

\* C37 witness: the executor of the first task ran its cleanup and the slot
\* went to the second task, which is running, its worker in the settling
\* delay, and a create_task call has just been refused.
C37_Witness ==
  /\ nextId = 3 /\ epc[1] = "done" /\ current = 2
  /\ tasks[2].status = RUNNING /\ wpc[2] = "settle"
  /\ ret.op = "create_task" /\ ret.res = "Conflict"

\* C38: every patch a worker emitted is applied to its task before the
\* executor records the terminal status: a task that is completed, failed or
\* cancelled has no patch of its worker waiting, and a step that applies a
\* worker's patch applies it to a task that is not terminal.
C38_PatchesBeforeTerminal ==
  /\ [](\A i \in Ids :
          (Exists(i) /\ tasks[i].status \in Terminal) => Pending(ready, i) = <<>>)
  /\ [][\A i \in Ids :
          (Pending(ready, i) # <<>> /\ Pending(ready', i) = Tail(Pending(ready, i)))
            => /\ Exists(i) /\ tasks[i].status \notin Terminal
               /\ tasks'[i] # NoTask /\ tasks'[i].status \notin Terminal]_vars

\* C38 witness: an axis movement completed after its worker's last patch
\* (progress 100) was applied; nothing of the worker is left in the queue.
C38_Witness ==
  \E i \in Ids :
    /\ Finished(i) /\ tasks[i].operation_type = AXIS_MOVEMENT
    /\ tasks[i].status = COMPLETED
    /\ "progress_percent" \in DOMAIN tasks[i].progress
    /\ tasks[i].progress["progress_percent"] = 100
    /\ Pending(ready, i) = <<>>

====
